---- MODULE Spec2Model ----
(***************************************************************************)
(* Model of servicenow_mcp/tools/catalog_tools.py: the service catalog     *)
(* adapters (list/get items, list/create/update categories, move items)    *)
(* and the request-submission resolver submit_catalog_request.             *)
(*                                                                         *)
(* One invocation runs at a time (the adapters are synchronous and keep no *)
(* state between invocations).  An invocation is split at its outbound     *)
(* HTTP calls: the transport's answer to each call is an input of the      *)
(* step that issues it.                                                    *)
(*                                                                         *)
(* Note on the source: line 593 of catalog_tools.py carries a stray "]"    *)
(* (headers["Accept"] = "application/json"]).  The model reads it as the   *)
(* assignment the other six adapters make at the same place.               *)
(***************************************************************************)
EXTENDS Integers, Sequences, FiniteSets, TLC

VARIABLES op, pc, params, calls, result, ritm_list, success_count,
          failed_items, outcome, first

vars == <<op, pc, params, calls, result, ritm_list, success_count,
          failed_items, outcome, first>>

(***************************************************************************)
(* Bounds of the model.                                                    *)
(***************************************************************************)
\* longest item_ids list handed to move_catalog_items
MaxItems == 3
\* most rows a remote list payload (sc_cat_item, sc_category, sc_req_item) holds
MaxRows == 2

(***************************************************************************)
(* Python values.  None stands for Python's None / JSON null; it is        *)
(* distinct from every string the model draws.  Absent marks a key that a  *)
(* dict does not have and is used only while building the dicts.           *)
(***************************************************************************)
None == "<None>"
Absent == "<absent>"

\* a dict: a function from the keys it has to their values
MkDict(f) == [k \in {x \in DOMAIN f : f[x] # Absent} |-> f[k]]
EmptyDict == [k \in {} |-> None]

\* dict.get(key): None when the key is missing
Get(d, k) == IF k \in DOMAIN d THEN d[k] ELSE None

\* dict.get(key, default): the default only when the key is missing
GetDefault(d, k, default) == IF k \in DOMAIN d THEN d[k] ELSE default

\* truth value of a string-or-None
Truthy(v) == v # None /\ v # ""

\* Python's  a or b
Or(a, b) == IF Truthy(a) THEN a ELSE b

\* str(v), as an f-string renders a string-or-None
Str(v) == IF v = None THEN "None" ELSE v

\* Optional[int] / Optional[bool]: Nothing is None, Some(x) is the value x
Nothing == <<>>
Some(x) == <<x>>

\* Optional[Dict] carried by CatalogResponse.data
DataNone == [none |-> TRUE]
Data(d) == [none |-> FALSE, dict |-> d]

\* all sequences over S of length 0..n
RECURSIVE SeqsUpTo(_, _)
SeqsUpTo(S, n) ==
    IF n = 0 THEN {<<>>}
    ELSE LET shorter == SeqsUpTo(S, n - 1)
         IN  shorter \cup {Append(s, x) : s \in {t \in shorter : Len(t) = n - 1}, x \in S}

(***************************************************************************)
(* The transport (requests + raise_for_status): a call either raises a     *)
(* RequestException with an error text or returns the parsed JSON body.    *)
(***************************************************************************)
Errors == {"500 Server Error", "Connection refused"}

\* the answers a call can get: a RequestException with its text, or a 2xx
\* answer whose JSON "result" is one of payloads
Responses(payloads, empty) ==
    {[ok |-> TRUE, json |-> j, error |-> None] : j \in payloads}
      \cup {[ok |-> FALSE, json |-> empty, error |-> e] : e \in Errors}

\* one outbound call: what was sent, and the text of the RequestException
\* the transport raised (None when it raised none)
Call(method, url, query, body, error) ==
    [method |-> method, url |-> url, query |-> query, body |-> body,
     failed |-> error # None, error |-> error]

NoOutcome == [kind |-> "none"]

\* CatalogResponse(success=..., message=..., data=...)
CatalogResponse(success, message, data) ==
    [kind |-> "return", success |-> success, message |-> message, data |-> data]

\* an exception that leaves the adapter
Raise(exc, message) == [kind |-> "raise", exc |-> exc, message |-> message]

(***************************************************************************)
(* submit_catalog_request                                                  *)
(***************************************************************************)
ItemIds == {"ITM001", "PRD1"}
ItemTypes == {"item", "producer"}
\* params.variables: None, {} or a non-empty mapping
VariableSets == {None, "{}", "{ram:16}"}

SubmitParams == [item_id : ItemIds, variables : VariableSets, item_type : ItemTypes]

\* the "result" object of a successful submission response
SubmitResults ==
    {MkDict(f) : f \in [table : {Absent, "", "sc_request", "incident"},
                        record : {Absent, "sc_request", "incident"},
                        sys_id : {Absent, "", "REQ1"},
                        request_id : {Absent, "", "REQ2"},
                        request_number : {Absent, "", "REQ0001"},
                        number : {Absent, "", "NUM0001"}]}

\* one row of the sc_req_item lookup
RitmRows ==
    {MkDict(f) : f \in [sys_id : {Absent, "RITM9"}, number : {Absent, "RITM0009"}]}

RitmLists == SeqsUpTo(RitmRows, MaxRows)

submit_url(p) ==
    IF p.item_type = "producer"
    THEN "/api/sn_sc/servicecatalog/items/" \o p.item_id \o "/submit_producer"
    ELSE "/api/sn_sc/servicecatalog/items/" \o p.item_id \o "/order_now"

\* body["variables"] is set only for a truthy params.variables
submit_body(p) ==
    IF p.variables # None /\ p.variables # "{}"
    THEN MkDict([variables |-> p.variables])
    ELSE EmptyDict

ritm_query_url(req_id) ==
    "/api/now/table/sc_req_item" \o "?sysparm_query=request=" \o req_id
      \o "&sysparm_fields=sys_id,number" \o "&sysparm_limit=1"
      \o "&sysparm_display_value=true"

\* faulty variant: the record hint is read before the table hint
created_table_RecordFirst(res) == Or(Get(res, "record"), Get(res, "table"))

created_table(res) == Or(Get(res, "table"), Get(res, "record"))

IsRequestRecord(res) == created_table(res) = "sc_request"

req_id_of(res) == Or(Get(res, "sys_id"), Get(res, "request_id"))

\* faulty variant: the request is reported even when a RITM was found
ResolveRequest_KeepsParent(res, req_id, rows) ==
    [record_id |-> req_id,
     record_number |-> Or(Get(res, "request_number"), Get(res, "number"))]

\* faulty variant: the RITM's id is paired with the request's number
ResolveRequest_NumberFromParent(res, req_id, rows) ==
    [record_id |-> IF Len(rows) > 0 THEN Get(rows[1], "sys_id") ELSE req_id,
     record_number |-> Or(Get(res, "request_number"), Get(res, "number"))]

\* faulty variant: the fallback reads the generic number before request_number
ResolveRequest_GenericNumberFirst(res, req_id, rows) ==
    IF Len(rows) > 0
    THEN [record_id |-> Get(rows[1], "sys_id"),
          record_number |-> Get(rows[1], "number")]
    ELSE [record_id |-> req_id,
          record_number |-> Or(Get(res, "number"), Get(res, "request_number"))]

\* the RITM found under the request, else the request itself
ResolveRequest(res, req_id, rows) ==
    IF Len(rows) > 0
    THEN [record_id |-> Get(rows[1], "sys_id"),
          record_number |-> Get(rows[1], "number")]
    ELSE [record_id |-> req_id,
          record_number |-> Or(Get(res, "request_number"), Get(res, "number"))]

\* faulty variant: request_number is read before number
ResolveDirect_RequestNumberFirst(res) ==
    [record_id |-> Get(res, "sys_id"),
     record_number |-> Or(Get(res, "request_number"), Get(res, "number"))]

\* not a REQ: the created record itself
ResolveDirect(res) ==
    [record_id |-> Get(res, "sys_id"),
     record_number |-> Or(Get(res, "number"), Get(res, "request_number"))]

SubmitSuccess(formatted) ==
    CatalogResponse(TRUE,
                    "Submitted catalog request; created record "
                      \o Str(Or(formatted.record_number, formatted.record_id)),
                    Data(formatted))

\* except requests.exceptions.RequestException
SubmitTransportFailure(e) ==
    CatalogResponse(FALSE, "Error submitting catalog request: " \o e, DataNone)

\* raise RuntimeError(...) inside the try: no except clause matches it
SubmitNoRequestId ==
    Raise("RuntimeError", "Cannot locate sys_id for created record")

\* faulty variant: a failed lookup is swallowed and the request reported
AfterLookup_FallsBackOnError(res, req_id, ok, rows, e) ==
    IF ok THEN SubmitSuccess(ResolveRequest(res, req_id, rows))
    ELSE SubmitSuccess(ResolveRequest(res, req_id, <<>>))

\* what the handler does once the lookup call has answered
AfterLookup(res, req_id, ok, rows, e) ==
    IF ok THEN SubmitSuccess(ResolveRequest(res, req_id, rows))
    ELSE SubmitTransportFailure(e)

\* faulty variant: the lookup is made for any result that names an id,
\* whatever table was created
AfterPost_LooksUpEveryRecord(res) ==
    IF Truthy(req_id_of(res))
    THEN [pc |-> "lookup", outcome |-> NoOutcome]
    ELSE [pc |-> "done", outcome |-> SubmitSuccess(ResolveDirect(res))]

\* what the handler does once the POST has answered with a result: return,
\* raise, or go on to the lookup call
AfterPost(res) ==
    IF IsRequestRecord(res)
    THEN IF ~Truthy(req_id_of(res))
         THEN [pc |-> "done", outcome |-> SubmitNoRequestId]
         ELSE [pc |-> "lookup", outcome |-> NoOutcome]
    ELSE [pc |-> "done", outcome |-> SubmitSuccess(ResolveDirect(res))]

\* the POST and everything up to the return or to the lookup call
SubmitPost ==
    /\ pc = "idle"
    /\ \E p \in SubmitParams :
        /\ op' = "submit"
        /\ params' = p
        /\ \/ \E e \in Errors :
                /\ calls' = <<Call("POST", submit_url(p), EmptyDict, submit_body(p), e)>>
                /\ result' = EmptyDict
                /\ outcome' = SubmitTransportFailure(e)
                /\ pc' = "done"
           \/ \E res \in SubmitResults :
                /\ calls' = <<Call("POST", submit_url(p), EmptyDict, submit_body(p), None)>>
                /\ result' = res
                /\ outcome' = AfterPost(res).outcome
                /\ pc' = AfterPost(res).pc
    /\ UNCHANGED <<ritm_list, success_count, failed_items, first>>

\* the sc_req_item lookup and the return that follows it
SubmitLookup ==
    /\ op = "submit" /\ pc = "lookup"
    /\ \/ \E e \in Errors :
            /\ calls' = Append(calls, Call("GET", ritm_query_url(req_id_of(result)), EmptyDict, EmptyDict, e))
            /\ ritm_list' = <<>>
            /\ outcome' = AfterLookup(result, req_id_of(result), FALSE, <<>>, e)
       \/ \E rows \in RitmLists :
            /\ calls' = Append(calls, Call("GET", ritm_query_url(req_id_of(result)), EmptyDict, EmptyDict, None))
            /\ ritm_list' = rows
            /\ outcome' = AfterLookup(result, req_id_of(result), TRUE, rows, None)
    /\ pc' = "done"
    /\ UNCHANGED <<op, params, result, success_count, failed_items, first>>

(***************************************************************************)
(* move_catalog_items                                                      *)
(***************************************************************************)
MoveParams ==
    [item_ids : SeqsUpTo({"a", "b"}, MaxItems), target_category_id : {"cat1"}]

move_url(item_id) == "/api/now/table/sc_cat_item" \o "/" \o item_id

move_body(p) == MkDict([category |-> p.target_category_id])

\* faulty variant: anything short of every item moved is reported as failure
MoveOutcome_AllOrNothing(item_ids, target, count, failed) ==
    IF count = Len(item_ids)
    THEN CatalogResponse(TRUE,
             "Successfully moved " \o ToString(count)
                 \o " catalog items to category " \o target,
             Data([moved_items_count |-> count]))
    ELSE CatalogResponse(FALSE,
             "Failed to move any catalog items",
             Data([failed_items |-> failed]))

\* the response prepared after the loop
MoveOutcome(item_ids, target, count, failed) ==
    IF count = Len(item_ids)
    THEN CatalogResponse(TRUE,
             "Successfully moved " \o ToString(count)
                 \o " catalog items to category " \o target,
             Data([moved_items_count |-> count]))
    ELSE IF count > 0
    THEN CatalogResponse(TRUE,
             "Partially moved catalog items. " \o ToString(count)
                 \o " succeeded, " \o ToString(Len(failed)) \o " failed.",
             Data([moved_items_count |-> count, failed_items |-> failed]))
    ELSE CatalogResponse(FALSE,
             "Failed to move any catalog items",
             Data([failed_items |-> failed]))

MoveStart ==
    /\ pc = "idle"
    /\ \E p \in MoveParams :
        /\ op' = "move"
        /\ params' = p
    /\ calls' = <<>>
    /\ success_count' = 0
    /\ failed_items' = <<>>
    /\ pc' = "loop"
    /\ UNCHANGED <<result, ritm_list, outcome, first>>

\* faulty variant: no inner try, so the first failing PATCH ends the loop in
\* the outer except clause
MovePatch_AbortsOnFailure ==
    /\ op = "move" /\ pc = "loop"
    /\ Len(calls) < Len(params.item_ids)
    /\ LET item_id == params.item_ids[Len(calls) + 1]
       IN  \/ /\ calls' = Append(calls, Call("PATCH", move_url(item_id), EmptyDict, move_body(params), None))
              /\ success_count' = success_count + 1
              /\ UNCHANGED <<failed_items, pc, outcome>>
           \/ \E e \in Errors :
              /\ calls' = Append(calls, Call("PATCH", move_url(item_id), EmptyDict, move_body(params), e))
              /\ pc' = "done"
              /\ outcome' = CatalogResponse(FALSE, "Error moving catalog items: " \o e, DataNone)
              /\ UNCHANGED <<success_count, failed_items>>
    /\ UNCHANGED <<op, params, result, ritm_list, first>>

\* one iteration of the for loop: one PATCH
MovePatch ==
    /\ op = "move" /\ pc = "loop"
    /\ Len(calls) < Len(params.item_ids)
    /\ LET item_id == params.item_ids[Len(calls) + 1]
       IN  \/ /\ calls' = Append(calls, Call("PATCH", move_url(item_id), EmptyDict, move_body(params), None))
              /\ success_count' = success_count + 1
              /\ UNCHANGED failed_items
           \/ \E e \in Errors :
              /\ calls' = Append(calls, Call("PATCH", move_url(item_id), EmptyDict, move_body(params), e))
              /\ failed_items' = Append(failed_items, [item_id |-> item_id, error |-> e])
              /\ UNCHANGED success_count
    /\ UNCHANGED <<op, pc, params, result, ritm_list, outcome, first>>

\* the loop is exhausted: prepare the response
MoveFinish ==
    /\ op = "move" /\ pc = "loop"
    /\ Len(calls) = Len(params.item_ids)
    /\ outcome' = MoveOutcome(params.item_ids, params.target_category_id, success_count, failed_items)
    /\ pc' = "done"
    /\ UNCHANGED <<op, params, calls, result, ritm_list, success_count, failed_items, first>>

(***************************************************************************)
(* list_catalog_items, get_catalog_item, list_catalog_categories           *)
(***************************************************************************)
\* str(b).lower()
LowerBool(b) == IF b THEN "true" ELSE "false"

\* "^".join(filters)
RECURSIVE Join(_)
Join(filters) ==
    IF Len(filters) = 0 THEN ""
    ELSE IF Len(filters) = 1 THEN filters[1]
    ELSE filters[1] \o "^" \o Join(Tail(filters))

\* the filter appended when cond holds
FilterIf(cond, text) == IF cond THEN <<text>> ELSE <<>>

\* the paging parameters plus sysparm_query when there is a filter
ListQuery(p, filters) ==
    MkDict([sysparm_limit |-> ToString(p.limit),
            sysparm_offset |-> ToString(p.offset),
            sysparm_display_value |-> "true",
            sysparm_exclude_reference_link |-> "true",
            sysparm_query |-> IF Len(filters) > 0 THEN Join(filters) ELSE Absent])

\* ListCatalogItemsParams with the default limit and offset: no filter, one
\* filter, two filters, all three
ListItemsInput(category, query, active) ==
    [limit |-> 10, offset |-> 0, category |-> category, query |-> query,
     active |-> active]

ListItemsParams ==
    {ListItemsInput(None, None, FALSE), ListItemsInput("hw", None, TRUE),
     ListItemsInput(None, "lap", TRUE), ListItemsInput("hw", "lap", TRUE)}

ListCategoriesInput(query, active) ==
    [limit |-> 10, offset |-> 0, query |-> query, active |-> active]

ListCategoriesParams ==
    {ListCategoriesInput(None, FALSE), ListCategoriesInput(None, TRUE),
     ListCategoriesInput("lap", TRUE)}

GetItemParams == [item_id : ItemIds]

\* remote records: a projected field missing, null or set, with or without a
\* field the adapters do not project
ItemRows ==
    {MkDict(f) : f \in [sys_id : {Absent, None, "i1"}, x_extra : {Absent, "x"}]}

CategoryRows ==
    {MkDict(f) : f \in [title : {Absent, None, "Hardware"}, x_extra : {Absent, "x"}]}

\* the "result" object of the item endpoint ({} when there is none)
Items ==
    {MkDict(f) : f \in [sys_id : {Absent, None, "i1"}, name : {Absent, "Laptop"},
                        x_extra : {Absent, "x"}]}

list_items_filters(p) ==
    FilterIf(p.active, "active=true")
      \o FilterIf(Truthy(p.category), "category=" \o Str(p.category))
      \o FilterIf(Truthy(p.query),
                  "short_descriptionLIKE" \o Str(p.query) \o "^ORnameLIKE" \o Str(p.query))

list_categories_filters(p) ==
    FilterIf(p.active, "active=true")
      \o FilterIf(Truthy(p.query),
                  "titleLIKE" \o Str(p.query) \o "^ORdescriptionLIKE" \o Str(p.query))

\* the fields list_catalog_items copies from each row
ListItemFields ==
    {"sys_id", "name", "short_description", "category", "price", "picture",
     "active", "order"}

\* the fields the category adapters copy from a category
CategoryFields ==
    {"sys_id", "title", "description", "parent", "icon", "active", "order"}

\* get_catalog_item: output key |-> key read from the remote item
GetItemSource ==
    [sys_id |-> "sys_id", name |-> "name", short_description |-> "short_description",
     description |-> "description", category |-> "category", price |-> "price",
     picture |-> "picture", active |-> "active", order |-> "order",
     delivery_time |-> "delivery_time", availability |-> "availability",
     mandatory_attachment |-> "mandatory_attachment", variables |-> "variables",
     ui_policies |-> "ui_policy", client_scripts |-> "client_script"]

\* faulty variant: the row is passed on whole, the listed fields filled in
FormatListItem_CopiesEverything(item) ==
    [k \in ListItemFields \cup DOMAIN item |-> GetDefault(item, k, "")]

\* {"sys_id": item.get("sys_id", ""), ...}
FormatListItem(item) == [k \in ListItemFields |-> GetDefault(item, k, "")]

FormatCategory(category) == [k \in CategoryFields |-> GetDefault(category, k, "")]

FormatItem(item) ==
    [k \in DOMAIN GetItemSource |-> GetDefault(item, GetItemSource[k], "")]

\* the formatted rows, in the order received
FormatAll(F(_), rows) == [i \in 1..Len(rows) |-> F(rows[i])]

ListItemsOutcome(p, ok, rows, e) ==
    IF ok
    THEN [kind |-> "return", success |-> TRUE,
          message |-> "Retrieved " \o ToString(Len(rows)) \o " catalog items",
          items |-> FormatAll(FormatListItem, rows), total |-> Len(rows),
          limit |-> p.limit, offset |-> p.offset]
    ELSE [kind |-> "return", success |-> FALSE,
          message |-> "Error listing catalog items: " \o e,
          items |-> <<>>, total |-> 0, limit |-> p.limit, offset |-> p.offset]

ListCategoriesOutcome(p, ok, rows, e) ==
    IF ok
    THEN [kind |-> "return", success |-> TRUE,
          message |-> "Retrieved " \o ToString(Len(rows)) \o " catalog categories",
          categories |-> FormatAll(FormatCategory, rows), total |-> Len(rows),
          limit |-> p.limit, offset |-> p.offset]
    ELSE [kind |-> "return", success |-> FALSE,
          message |-> "Error listing catalog categories: " \o e,
          categories |-> <<>>, total |-> 0, limit |-> p.limit, offset |-> p.offset]

GetItemOutcome(p, ok, item, e) ==
    IF ~ok
    THEN CatalogResponse(FALSE, "Error getting catalog item: " \o e, DataNone)
    ELSE IF DOMAIN item = {}
    THEN CatalogResponse(FALSE, "Catalog item not found: " \o p.item_id, DataNone)
    ELSE CatalogResponse(TRUE,
                         "Retrieved catalog item: " \o Str(GetDefault(item, "name", "")),
                         Data(FormatItem(item)))

GetItemQuery ==
    MkDict([sysparm_display_value |-> "true", sysparm_exclude_reference_link |-> "true"])

ListItems ==
    /\ pc = "idle"
    /\ \E p \in ListItemsParams, resp \in Responses(SeqsUpTo(ItemRows, MaxRows), <<>>) :
        /\ op' = "list_items"
        /\ params' = p
        /\ calls' = <<Call("GET", "/api/now/table/sc_cat_item",
                          ListQuery(p, list_items_filters(p)), EmptyDict, resp.error)>>
        /\ result' = resp.json
        /\ outcome' = ListItemsOutcome(p, resp.ok, resp.json, resp.error)
    /\ pc' = "done"
    /\ UNCHANGED <<ritm_list, success_count, failed_items, first>>

ListCategories ==
    /\ pc = "idle"
    /\ \E p \in ListCategoriesParams, resp \in Responses(SeqsUpTo(CategoryRows, MaxRows), <<>>) :
        /\ op' = "list_categories"
        /\ params' = p
        /\ calls' = <<Call("GET", "/api/now/table/sc_category",
                          ListQuery(p, list_categories_filters(p)), EmptyDict, resp.error)>>
        /\ result' = resp.json
        /\ outcome' = ListCategoriesOutcome(p, resp.ok, resp.json, resp.error)
    /\ pc' = "done"
    /\ UNCHANGED <<ritm_list, success_count, failed_items, first>>

GetItem ==
    /\ pc = "idle"
    /\ \E p \in GetItemParams, resp \in Responses(Items, EmptyDict) :
        /\ op' = "get_item"
        /\ params' = p
        /\ calls' = <<Call("GET", "/api/sn_sc/servicecatalog/items/" \o p.item_id,
                          GetItemQuery, EmptyDict, resp.error)>>
        /\ result' = resp.json
        /\ outcome' = GetItemOutcome(p, resp.ok, resp.json, resp.error)
    /\ pc' = "done"
    /\ UNCHANGED <<ritm_list, success_count, failed_items, first>>

(***************************************************************************)
(* create_catalog_category, update_catalog_category                        *)
(***************************************************************************)
CreateCategoryParams ==
    [title : {"Hardware"}, description : {None, "All hardware"}, parent : {None},
     icon : {None, "pc"}, active : {Some(TRUE), Some(FALSE)},
     order : {Nothing, Some(5)}]

\* every field but category_id is Optional, active included
UpdateCategoryParams ==
    [category_id : {"c1"}, title : {None, "Hardware"}, description : {None},
     parent : {None, "c0"}, icon : {None},
     active : {Nothing, Some(TRUE), Some(FALSE)}, order : {Nothing, Some(5)}]

\* the optional body fields, each present only when its parameter is not None
OptionalBody(p) ==
    [description |-> IF p.description # None THEN p.description ELSE Absent,
     parent |-> IF p.parent # None THEN p.parent ELSE Absent,
     icon |-> IF p.icon # None THEN p.icon ELSE Absent,
     active |-> IF p.active # Nothing THEN LowerBool(p.active[1]) ELSE Absent,
     order |-> IF p.order # Nothing THEN ToString(p.order[1]) ELSE Absent]

create_body(p) == MkDict([title |-> p.title] @@ OptionalBody(p))

update_body(p) ==
    MkDict([title |-> IF p.title # None THEN p.title ELSE Absent] @@ OptionalBody(p))

CreateCategoryOutcome(p, ok, category, e) ==
    IF ok
    THEN CatalogResponse(TRUE, "Created catalog category: " \o p.title,
                         Data(FormatCategory(category)))
    ELSE CatalogResponse(FALSE, "Error creating catalog category: " \o e, DataNone)

UpdateCategoryOutcome(p, ok, category, e) ==
    IF ok
    THEN CatalogResponse(TRUE, "Updated catalog category: " \o p.category_id,
                         Data(FormatCategory(category)))
    ELSE CatalogResponse(FALSE, "Error updating catalog category: " \o e, DataNone)

CreateCategory ==
    /\ pc = "idle"
    /\ \E p \in CreateCategoryParams, resp \in Responses(CategoryRows, EmptyDict) :
        /\ op' = "create_category"
        /\ params' = p
        /\ calls' = <<Call("POST", "/api/now/table/sc_category",
                          EmptyDict, create_body(p), resp.error)>>
        /\ result' = resp.json
        /\ outcome' = CreateCategoryOutcome(p, resp.ok, resp.json, resp.error)
    /\ pc' = "done"
    /\ UNCHANGED <<ritm_list, success_count, failed_items, first>>

UpdateCategory ==
    /\ pc = "idle"
    /\ \E p \in UpdateCategoryParams, resp \in Responses(CategoryRows, EmptyDict) :
        /\ op' = "update_category"
        /\ params' = p
        /\ calls' = <<Call("PATCH", "/api/now/table/sc_category/" \o p.category_id,
                          EmptyDict, update_body(p), resp.error)>>
        /\ result' = resp.json
        /\ outcome' = UpdateCategoryOutcome(p, resp.ok, resp.json, resp.error)
    /\ pc' = "done"
    /\ UNCHANGED <<ritm_list, success_count, failed_items, first>>

(***************************************************************************)
(* The invocation has returned (or raised); nothing is kept for the next.  *)
(***************************************************************************)
NoRun == [op |-> "idle"]

(***************************************************************************)
(* Comparing two invocations of the read adapters: Keep notes what the     *)
(* first one was given and what it returned, before the adapter is invoked *)
(* again.  Of the remote payload it notes the part made of the fields the  *)
(* adapter reads, whether that part is all of it, and whether the payload  *)
(* had any field at all.                                                   *)
(***************************************************************************)
ReadOps == {"list_items", "get_item", "list_categories"}

\* the remote keys an adapter reads from each record
ProjectedKeys(name) ==
    IF name = "list_items" THEN ListItemFields
    ELSE IF name = "list_categories" THEN CategoryFields
    ELSE {GetItemSource[k] : k \in DOMAIN GetItemSource}

Restrict(d, keys) == [k \in DOMAIN d \cap keys |-> d[k]]

\* the payload with every field the adapter does not read removed
Projected(name, payload) ==
    IF name = "get_item" THEN Restrict(payload, ProjectedKeys(name))
    ELSE [i \in 1..Len(payload) |-> Restrict(payload[i], ProjectedKeys(name))]

Keep ==
    /\ pc = "done"
    /\ op \in ReadOps
    /\ first = NoRun
    /\ ~calls[1].failed
    /\ first' = [op |-> op, params |-> params, ncalls |-> Len(calls),
                 projected |-> Projected(op, result),
                 plain |-> Projected(op, result) = result,
                 blank |-> result = EmptyDict, outcome |-> outcome]
    /\ UNCHANGED <<op, pc, params, calls, result, ritm_list, success_count,
                   failed_items, outcome>>

Return ==
    /\ pc = "done"
    /\ op' = "idle"
    /\ pc' = "idle"
    /\ params' = EmptyDict
    /\ calls' = <<>>
    /\ result' = EmptyDict
    /\ ritm_list' = <<>>
    /\ success_count' = 0
    /\ failed_items' = <<>>
    /\ outcome' = NoOutcome
    /\ UNCHANGED first

Init ==
    /\ op = "idle"
    /\ pc = "idle"
    /\ params = EmptyDict
    /\ calls = <<>>
    /\ result = EmptyDict
    /\ ritm_list = <<>>
    /\ success_count = 0
    /\ failed_items = <<>>
    /\ outcome = NoOutcome
    /\ first = NoRun

Next ==
    \/ SubmitPost
    \/ SubmitLookup
    \/ MoveStart
    \/ MovePatch
    \/ MoveFinish
    \/ ListItems
    \/ GetItem
    \/ ListCategories
    \/ CreateCategory
    \/ UpdateCategory
    \/ Return

Spec == Init /\ [][Next]_vars

\* the loop of move_catalog_items runs on: each blocking call returns or
\* raises, and the statement after it is executed
SpecLive == Init /\ [][Next]_vars /\ WF_vars(MovePatch) /\ WF_vars(MoveFinish)

\* two invocations of the read adapters, the first one noted
NextPair ==
    \/ ListItems
    \/ GetItem
    \/ ListCategories
    \/ Keep
    \/ Return

SpecPair == Init /\ [][NextPair]_vars

(***************************************************************************)
(* Properties of submit_catalog_request                                    *)
(***************************************************************************)
SubmitDone == op = "submit" /\ pc = "done"

\* the submission POST was answered with a result
PostAnswered == Len(calls) >= 1 /\ ~calls[1].failed

\* the lookup GET was issued and answered
LookupAnswered == Len(calls) = 2 /\ ~calls[2].failed

Returned(success) == outcome.kind = "return" /\ outcome.success = success

SubmitSucceeded == SubmitDone /\ Returned(TRUE)

\* a field that is there with a non-empty value
Present(d, k) == k \in DOMAIN d /\ d[k] # None /\ d[k] # ""

\* C1: a submission answered with an sc_request result whose sys_id and
\* request_id are both absent or empty returns success=false with data=null;
\* nothing is raised out of the adapter and no lookup call is issued.
C1_NoParentIdReturnsFailure ==
    (SubmitDone /\ PostAnswered /\ IsRequestRecord(result)
       /\ ~Present(result, "sys_id") /\ ~Present(result, "request_id"))
    => (Returned(FALSE) /\ outcome.data = DataNone /\ Len(calls) = 1)

\* the record the two result fields are resolved from: the first lookup row,
\* the parent request when the lookup found nothing, else the response itself
SourceIds ==
    IF ~IsRequestRecord(result) THEN {Get(result, "sys_id")}
    ELSE IF Len(ritm_list) > 0 THEN {Get(ritm_list[1], "sys_id")}
    ELSE {Get(result, "sys_id"), Get(result, "request_id")}

SourceNumbers ==
    IF ~IsRequestRecord(result)
    THEN {Get(result, "number"), Get(result, "request_number")}
    ELSE IF Len(ritm_list) > 0 THEN {Get(ritm_list[1], "number")}
    ELSE {Get(result, "request_number"), Get(result, "number")}

\* C2 as stated: in every successful outcome record_id and record_number are
\* both populated or both null.
C2_BothOrNeither ==
    SubmitSucceeded =>
        (outcome.data.dict.record_id = None <=> outcome.data.dict.record_number = None)

\* C2 amended: in every successful outcome record_id and record_number are
\* taken from one and the same source record; both are populated whenever that
\* record supplies a non-empty identifier and a non-empty number, and exactly
\* one of them is populated only when the source record lacks the other.
C2_ResolvedAsUnit ==
    SubmitSucceeded =>
        LET id == outcome.data.dict.record_id
            num == outcome.data.dict.record_number
            hasId == \E v \in SourceIds : Truthy(v)
            hasNum == \E v \in SourceNumbers : Truthy(v)
        IN  /\ id \in SourceIds \cup {None}
            /\ num \in SourceNumbers \cup {None}
            /\ (hasId /\ hasNum) => (id # None /\ num # None)
            /\ (id # None /\ num = None) => ~hasNum
            /\ (id = None /\ num # None) => ~hasId

\* a successful outcome with only the identifier, from a source without number
C2_Witness ==
    /\ SubmitSucceeded
    /\ outcome.data.dict.record_id = "REQ1"
    /\ outcome.data.dict.record_number = None
    /\ ~IsRequestRecord(result)

\* C3: when the response is an sc_request with a parent id and the lookup
\* returns a row, record_id and record_number are that row's sys_id and number
\* and not the parent request's identifier or number.
C3_RowWins ==
    (SubmitDone /\ PostAnswered /\ LookupAnswered /\ Len(ritm_list) > 0)
    => /\ Returned(TRUE)
       /\ outcome.data.dict.record_id = Get(ritm_list[1], "sys_id")
       /\ outcome.data.dict.record_number = Get(ritm_list[1], "number")
       /\ outcome.data.dict.record_id
            \notin {result[k] : k \in DOMAIN result \cap {"sys_id", "request_id"}}
       /\ outcome.data.dict.record_number
            \notin {result[k] : k \in DOMAIN result \cap {"request_number", "number"}}

\* the scenario of the specification: REQ1/REQ0001 with the row RITM9/RITM0009
C3_Witness ==
    /\ SubmitDone
    /\ result = MkDict([table |-> "sc_request", sys_id |-> "REQ1",
                        request_number |-> "REQ0001"])
    /\ ritm_list = <<MkDict([sys_id |-> "RITM9", number |-> "RITM0009"])>>
    /\ Returned(TRUE)
    /\ outcome.data.dict = [record_id |-> "RITM9", record_number |-> "RITM0009"]

\* C4: when the response is an sc_request with a parent id and the lookup
\* returns no row, the outcome is success=true, record_id is the parent's
\* sys_id, else its request_id, and record_number is the parent's
\* request_number when it has one, else its number field.  (A field holding
\* the empty string counts as not there, as in C1.)
C4_ParentFallback ==
    (SubmitDone /\ PostAnswered /\ LookupAnswered /\ Len(ritm_list) = 0)
    => /\ Returned(TRUE)
       /\ outcome.data.dict.record_id =
            (IF Present(result, "sys_id") THEN result.sys_id ELSE result.request_id)
       /\ outcome.data.dict.record_number =
            (IF Present(result, "request_number") THEN result.request_number
             ELSE IF "number" \in DOMAIN result THEN result.number
             ELSE None)

\* the fallback with both numbers there: request_number is the one reported
C4_Witness ==
    /\ SubmitDone /\ PostAnswered /\ LookupAnswered /\ Len(ritm_list) = 0
    /\ Present(result, "request_number") /\ Present(result, "number")
    /\ ~Present(result, "sys_id")
    /\ outcome.data.dict = [record_id |-> "REQ2", record_number |-> "REQ0001"]

\* C5: when the response carries no request marker, exactly one outbound call
\* is made, record_id is the response's sys_id and record_number its number
\* field, or its request_number field when it has no number.
C5_DirectRecord ==
    (SubmitDone /\ PostAnswered /\ ~IsRequestRecord(result))
    => /\ Len(calls) = 1
       /\ Returned(TRUE)
       /\ outcome.data.dict.record_id =
            (IF "sys_id" \in DOMAIN result THEN result.sys_id ELSE None)
       /\ outcome.data.dict.record_number =
            (IF Present(result, "number") THEN result.number
             ELSE IF "request_number" \in DOMAIN result THEN result.request_number
             ELSE None)

\* a direct record with both numbers there: number is the one reported
C5_Witness ==
    /\ SubmitDone /\ PostAnswered
    /\ Get(result, "record") = "incident" /\ "table" \notin DOMAIN result
    /\ Present(result, "number") /\ Present(result, "request_number")
    /\ Len(calls) = 1
    /\ outcome.data.dict = [record_id |-> "REQ1", record_number |-> "NUM0001"]

(***************************************************************************)
(* Properties of move_catalog_items                                        *)
(***************************************************************************)
MoveDone == op = "move" /\ pc = "done"

\* the calls the transport failed
FailedCalls == {i \in 1..Len(calls) : calls[i].failed}

\* the failing ids with their error text, in call order, up to call n
RECURSIVE FailuresUpTo(_)
FailuresUpTo(n) ==
    IF n = 0 THEN <<>>
    ELSE FailuresUpTo(n - 1)
           \o (IF calls[n].failed
               THEN <<[item_id |-> params.item_ids[n], error |-> calls[n].error]>>
               ELSE <<>>)

\* data.failed_items, read as empty when data does not have the key
ListedFailures ==
    IF "failed_items" \in DOMAIN outcome.data.dict
    THEN outcome.data.dict.failed_items
    ELSE <<>>

\* C6 as stated: for every list of N ids, the empty list included, with k
\* failing calls: k < N gives success=true, moved_items_count = N-k and
\* failed_items listing exactly the failing ids with their error text; k = N
\* gives success=false.
C6_MoveCounts ==
    MoveDone =>
        LET N == Len(params.item_ids)
            k == Cardinality(FailedCalls)
        IN  /\ k < N => /\ Returned(TRUE)
                        /\ outcome.data.dict.moved_items_count = N - k
                        /\ ListedFailures = FailuresUpTo(N)
            /\ k = N => Returned(FALSE)

\* C6 amended: as stated for every non-empty list (k = N >= 1 gives
\* success=false); for the empty list, where k = N = 0, the outcome is
\* success=true with moved_items_count = 0.  data carries the failed_items
\* key exactly when some call failed.
C6_MoveCountsNonEmpty ==
    MoveDone =>
        LET N == Len(params.item_ids)
            k == Cardinality(FailedCalls)
        IN  /\ (k < N \/ N = 0) =>
                  /\ Returned(TRUE)
                  /\ outcome.data.dict.moved_items_count = N - k
                  /\ ListedFailures = FailuresUpTo(N)
                  /\ ("failed_items" \in DOMAIN outcome.data.dict) <=> (k > 0)
            /\ (k = N /\ N > 0) => Returned(FALSE)

\* a partial move: three ids, the second one failed
C6_Witness ==
    /\ MoveDone
    /\ Len(params.item_ids) = 3
    /\ FailedCalls = {2}
    /\ Returned(TRUE)
    /\ outcome.data.dict.moved_items_count = 2
    /\ Len(outcome.data.dict.failed_items) = 1

(***************************************************************************)
(* Properties of every adapter that returns a CatalogResponse              *)
(***************************************************************************)
OutcomeOps == {"get_item", "create_category", "update_category", "move", "submit"}

\* the item and record identifiers found in a data payload
RecordRefs(data) ==
    IF data.none THEN {}
    ELSE LET d == data.dict
         IN  (IF "failed_items" \in DOMAIN d
              THEN {d.failed_items[i].item_id : i \in 1..Len(d.failed_items)}
              ELSE {})
               \cup ({d[k] : k \in DOMAIN d \cap {"sys_id", "record_id", "record_number"}}
                       \ {None, ""})

\* C7: every returned outcome with success=false carries no item or record
\* identifier in data, on every failure path of get item, create category,
\* update category, move items and submit.
C7_FailureCarriesNoReferences ==
    (pc = "done" /\ op \in OutcomeOps /\ Returned(FALSE))
    => RecordRefs(outcome.data) = {}

\* C8: in submit_catalog_request a transport failure of the POST or of the
\* lookup GET is the last call of the invocation (no retry, no further call)
\* and the outcome returned is success=false with data=null, its message
\* naming the cause; nothing of the submission response is reported.
C8_TransportFailureEndsSubmit ==
    op = "submit" =>
        /\ Len(calls) <= 2
        /\ \A i \in 1..Len(calls) :
             calls[i].failed =>
                /\ i = Len(calls)
                /\ pc = "done"
                /\ Returned(FALSE)
                /\ outcome.data = DataNone
                /\ outcome.message = "Error submitting catalog request: " \o calls[i].error

\* the lookup fails after a submission that named its request and number
C8_Witness ==
    /\ SubmitDone
    /\ Len(calls) = 2 /\ ~calls[1].failed /\ calls[2].failed
    /\ Present(result, "sys_id") /\ Present(result, "request_number")
    /\ Returned(FALSE)
    /\ outcome.data = DataNone

(***************************************************************************)
(* Properties of the read adapters                                         *)
(***************************************************************************)
\* a second invocation has returned: same adapter and inputs as the one noted
SecondDone ==
    /\ first # NoRun
    /\ pc = "done"
    /\ op = first.op
    /\ params = first.params
    /\ ~calls[1].failed

\* C9 as stated: each invocation of the three read adapters issues exactly one
\* call, and two invocations with the same inputs whose payloads agree on the
\* fields the adapter reads return identical outcomes.
C9_SameProjectionSameOutcome ==
    /\ (pc = "done" /\ op \in ReadOps) => Len(calls) = 1
    /\ (SecondDone /\ Projected(op, result) = first.projected)
         => outcome = first.outcome

\* C9 amended: as stated, except that get_catalog_item tells a result object
\* with no field at all (reported as not found) from one that has only fields
\* it does not read (reported as found, every projected field empty): its two
\* outcomes are identical when, in addition, both payloads are empty or
\* neither is.
C9_SameProjectionSameOutcomeUnlessBlank ==
    /\ (pc = "done" /\ op \in ReadOps) => Len(calls) = 1
    /\ first # NoRun => first.ncalls = 1
    /\ (SecondDone /\ Projected(op, result) = first.projected
          /\ (op = "get_item" => (result = EmptyDict) = first.blank))
         => outcome = first.outcome

\* two rows listed twice, the second time with a field the adapter drops
C9_Witness ==
    /\ SecondDone
    /\ op = "list_items"
    /\ Len(result) = 2
    /\ first.plain
    /\ Projected(op, result) # result
    /\ Projected(op, result) = first.projected
    /\ outcome = first.outcome

\* the records a successful outcome of the projecting adapters carries
ProjectedRecords ==
    IF op = "list_items"
    THEN {outcome.items[i] : i \in 1..Len(outcome.items)}
    ELSE IF op = "list_categories"
    THEN {outcome.categories[i] : i \in 1..Len(outcome.categories)}
    ELSE {outcome.data.dict}

\* C10: in every successful outcome of the list, get, create and update
\* adapters every projected field is non-null: a field the remote record does
\* not supply (key missing, or value null) is reported as the empty string.
C10_ProjectedNeverNull ==
    (pc = "done" /\ Returned(TRUE)
       /\ op \in {"list_items", "get_item", "list_categories",
                  "create_category", "update_category"})
    => \A r \in ProjectedRecords : \A k \in DOMAIN r : r[k] # None

(***************************************************************************)
(* The outbound calls of submit_catalog_request                            *)
(***************************************************************************)
\* the parent identifier a response names: sys_id, else request_id
ParentId(res) ==
    IF Present(res, "sys_id") THEN res.sys_id
    ELSE IF Present(res, "request_id") THEN res.request_id
    ELSE None

\* C11: a submit invocation issues exactly one submission POST and at most one
\* sc_req_item lookup GET; the lookup comes after a POST that succeeded, and
\* by the time the invocation is over it has been issued if and only if the
\* response was classified as a request record and named a non-empty parent
\* identifier (sys_id, else request_id), which is the query's request filter.
C11_OnePostAtMostOneLookup ==
    op = "submit" =>
        /\ Len(calls) \in {1, 2}
        /\ calls[1].method = "POST"
        /\ calls[1].url = submit_url(params)
        /\ Len(calls) = 2 =>
             /\ ~calls[1].failed
             /\ calls[2].method = "GET"
             /\ calls[2].url =
                  "/api/now/table/sc_req_item?sysparm_query=request="
                    \o ParentId(result)
                    \o "&sysparm_fields=sys_id,number&sysparm_limit=1&sysparm_display_value=true"
        /\ pc = "done" =>
             (Len(calls) = 2 <=>
                (PostAnswered /\ IsRequestRecord(result) /\ ParentId(result) # None))
        /\ pc = "lookup" =>
             (Len(calls) = 1 /\ PostAnswered /\ IsRequestRecord(result)
                /\ ParentId(result) # None)

\* a lookup filtered by request_id, the response having no usable sys_id
C11_Witness ==
    /\ SubmitDone
    /\ Len(calls) = 2
    /\ Get(result, "sys_id") = ""
    /\ calls[2].url =
         "/api/now/table/sc_req_item?sysparm_query=request=REQ2&sysparm_fields=sys_id,number&sysparm_limit=1&sysparm_display_value=true"

(***************************************************************************)
(* The loop of move_catalog_items                                          *)
(***************************************************************************)
\* what holds at every point of a move invocation
MoveLoopInvariant ==
    op = "move" =>
        /\ Len(calls) <= Len(params.item_ids)
        /\ \A i \in 1..Len(calls) :
             /\ calls[i].method = "PATCH"
             /\ calls[i].url = "/api/now/table/sc_cat_item/" \o params.item_ids[i]
        /\ success_count + Len(failed_items) = Len(calls)
        /\ Len(failed_items) = Cardinality(FailedCalls)
        /\ pc = "done" => (Len(calls) = Len(params.item_ids) /\ outcome.kind = "return")

\* C12: move_catalog_items issues one PATCH per element of item_ids, in list
\* order and one at a time; a failing item does not stop the calls for the
\* later ones, so every invocation reaches its outcome, after exactly N calls;
\* and at every point of the loop success_count plus the length of
\* failed_items is the number of items processed so far.
C12_OnePatchPerItem ==
    /\ []MoveLoopInvariant
    /\ (op = "move" /\ pc = "loop")
         ~> (op = "move" /\ pc = "done" /\ Len(calls) = Len(params.item_ids))

\* the first of three items failed and the two after it were still patched
C12_Witness ==
    /\ MoveDone
    /\ Len(params.item_ids) = 3
    /\ calls[1].failed
    /\ Len(calls) = 3
    /\ success_count + Len(failed_items) = 3

(***************************************************************************)
(* How submit_catalog_request classifies the submission response           *)
(***************************************************************************)
\* the response was taken for a request: the handler went for the lookup, or
\* gave up for want of a parent identifier
HandledAsRequest == pc = "lookup" \/ Len(calls) = 2 \/ outcome.kind = "raise"

\* the response was taken for the created record itself: one call, and the
\* response's own sys_id reported
HandledAsDirect ==
    /\ pc = "done"
    /\ Len(calls) = 1
    /\ Returned(TRUE)
    /\ outcome.data.dict.record_id = Get(result, "sys_id")

\* C13 as stated: a successful response is classified as a request record
\* exactly when its table hint or its record hint equals "sc_request",
\* whichever key carries it and whatever the other key holds; every other
\* response is taken as a direct record and triggers no lookup.
C13_EitherHintClassifies ==
    (op = "submit" /\ PostAnswered) =>
        LET marked == Get(result, "table") = "sc_request"
                        \/ Get(result, "record") = "sc_request"
        IN  /\ marked <=> HandledAsRequest
            /\ ~marked => HandledAsDirect

\* C13 amended: a successful response is classified as a request record
\* exactly when its table hint equals "sc_request", or, the table hint being
\* absent or empty, its record hint does: a non-empty table hint other than
\* "sc_request" decides for a direct record even when the record hint is
\* "sc_request".  Every other response, one with neither hint included, is
\* taken as a direct record and triggers no lookup.
C13_FirstHintClassifies ==
    (op = "submit" /\ PostAnswered) =>
        LET hint == IF Present(result, "table") THEN result.table
                    ELSE Get(result, "record")
        IN  /\ hint = "sc_request" <=> HandledAsRequest
            /\ hint # "sc_request" => HandledAsDirect

\* table says incident, record says sc_request: reported as a direct record
C13_Witness ==
    /\ op = "submit" /\ PostAnswered
    /\ Get(result, "table") = "incident"
    /\ Get(result, "record") = "sc_request"
    /\ Get(result, "sys_id") = "REQ1"
    /\ HandledAsDirect

====
